---- MODULE Spec2Model ----
(***************************************************************************)
(* Model of flexx/pyscript/functions.py: the js() entry point and the      *)
(* JSCode artifact, the script2js() file export and the evaljs() bridge    *)
(* to Node.js.  Text is modelled as sequences of one-character strings so  *)
(* that prefix/suffix tests, slicing and stripping are computed the way    *)
(* the Python string methods compute them.                                 *)
(***************************************************************************)
EXTENDS Integers, Sequences, FiniteSets, TLC

VARIABLES pc, call, result, held, xlat, fs, fs0

vars == <<pc, call, result, held, xlat, fs, fs0>>

(***************************************************************************)
(* Bounds of the model.                                                    *)
(***************************************************************************)
MaxChunks == 3
MaxLines == 3
MaxFiles == 2

(***************************************************************************)
(* Literal texts of the source.                                            *)
(***************************************************************************)
UNDEFINED == <<"u","n","d","e","f","i","n","e","d">>
FUNCTION_KW == <<"f","u","n","c","t","i","o","n">>
CLASS_KW == <<"c","l","a","s","s">>
VAR_SP == <<"v","a","r"," ">>
SUFFIX == <<"_","_","j","s">>
DOT_PY == <<".","p","y">>
DOT_JS == <<".","j","s">>
BANNER == <<"/","*"," ","D","o"," ","n","o","t"," ","e","d","i","t",","," ","a","u","t","o","g","e","n","e","r","a","t","e","d"," ","b","y"," ","f","l","e","x","x",".","p","y","s","c","r","i","p","t"," ","*","/","\n","\n">>
CANNOT == <<"C","a","n","n","o","t"," ">>
A_JS == <<" ","a"," ","J","S"," ">>
DIRECTLY == <<" ","d","i","r","e","c","t","l","y"," ","f","r","o","m"," ","P","y","t","h","o","n">>
CALL_WORD == <<"c","a","l","l">>
INSTANTIATE_WORD == <<"i","n","s","t","a","n","t","i","a","t","e">>

(***************************************************************************)
(* Python string methods on texts.                                         *)
(***************************************************************************)
\* the characters str.strip()/rstrip()/lstrip() remove when called without argument
WS == {" ", "\t", "\n", "\r", "\f"}

RECURSIVE rstrip(_)
rstrip(s) ==
    IF s # <<>> /\ s[Len(s)] \in WS THEN rstrip(SubSeq(s, 1, Len(s) - 1)) ELSE s

RECURSIVE lstrip(_)
lstrip(s) ==
    IF s # <<>> /\ s[1] \in WS THEN lstrip(Tail(s)) ELSE s

startswith(s, pre) ==
    Len(s) >= Len(pre) /\ SubSeq(s, 1, Len(pre)) = pre

endswith(s, suf) ==
    Len(s) >= Len(suf) /\ SubSeq(s, Len(s) - Len(suf) + 1, Len(s)) = suf

\* s[:-n] for n > 0
DropLast(s, n) ==
    IF Len(s) >= n THEN SubSeq(s, 1, Len(s) - n) ELSE <<>>

\* s[n:] for n >= 0
DropFirst(s, n) ==
    IF Len(s) >= n THEN SubSeq(s, n + 1, Len(s)) ELSE <<>>

RECURSIVE rstripSuffix(_)
rstripSuffix(s) ==
    IF Len(s) >= 4 /\ SubSeq(s, Len(s) - 3, Len(s)) = <<"_","_","j","s">>
    THEN rstripSuffix(SubSeq(s, 1, Len(s) - 4)) ELSE s

\* s.replace(c, '') for a one-character c
RECURSIVE replace(_, _)
replace(s, c) ==
    IF s = <<>> THEN <<>>
    ELSE IF s[1] = c THEN replace(Tail(s), c)
    ELSE <<s[1]>> \o replace(Tail(s), c)

\* ''.join(parts)
RECURSIVE join(_)
join(parts) ==
    IF parts = <<>> THEN <<>> ELSE parts[1] \o join(Tail(parts))

(***************************************************************************)
(* Results of a call: a returned value or a raised exception.              *)
(***************************************************************************)
NoText == <<>>
NoArtifact == [type |-> "none", name |-> NoText, pycode |-> NoText, jscode |-> NoText]
NoResult == [kind |-> "none", value |-> NoText, art |-> NoArtifact, exc |-> "", msg |-> NoText]
Returned(v) == [kind |-> "ok", value |-> v, art |-> NoArtifact, exc |-> "", msg |-> NoText]
ReturnedArtifact(a) == [kind |-> "ok", value |-> NoText, art |-> a, exc |-> "", msg |-> NoText]
Raised(e, m) == [kind |-> "error", value |-> NoText, art |-> NoArtifact, exc |-> e, msg |-> m]
NoXlat == [called |-> FALSE, pycode |-> NoText, namespace |-> "None", ok |-> FALSE, parts |-> <<>>]
NoFs == [p \in {} |-> NoText]

(***************************************************************************)
(* evaljs: the Node.js process and the post-processing of its output.      *)
(***************************************************************************)
NoValue == <<"<", "n", "o", "v", "a", "l", "u", "e", ">">>

\* `nodejs -p -e code`: whatever the code printed, then the value of the last
\* statement ("undefined" when it has none) and a newline
nodejs(printed, value) ==
    printed \o (IF value = NoValue THEN UNDEFINED ELSE value) \o <<"\n">>

evaljs_no_sentinel(stdout, whitespace) ==
    LET res1 == rstrip(stdout)
    IN  IF ~whitespace
        THEN replace(replace(replace(res1, "\n"), "\t"), " ")
        ELSE res1

evaljs_no_second_rstrip(stdout, whitespace) ==
    LET res1 == rstrip(stdout)
        res2 == IF endswith(res1, UNDEFINED) THEN DropLast(res1, 9) ELSE res1
    IN  IF ~whitespace
        THEN replace(replace(replace(res2, "\n"), "\t"), " ")
        ELSE res2

evaljs_keeps_tabs(stdout, whitespace) ==
    LET res1 == rstrip(stdout)
        res2 == IF endswith(res1, UNDEFINED) THEN rstrip(DropLast(res1, 9)) ELSE res1
    IN  IF ~whitespace
        THEN replace(replace(res2, "\n"), " ")
        ELSE res2

evaljs(stdout, whitespace) ==
    LET res1 == rstrip(stdout)
        res2 == IF endswith(res1, UNDEFINED) THEN rstrip(DropLast(res1, 9)) ELSE res1
    IN  IF ~whitespace
        THEN replace(replace(replace(res2, "\n"), "\t"), " ")
        ELSE res2

\* subprocess.check_output raises when the process exits non-zero
evaljs_call(c) ==
    IF c.exit # 0
    THEN Raised("CalledProcessError", NoText)
    ELSE Returned(evaljs(nodejs(c.printed, c.value), c.whitespace))

\* the texts a program can print, built from a few chunks
Chunks == {UNDEFINED, <<" ">>, <<"\n">>, <<"\t">>, <<"\r">>, <<"a">>}
Texts(n) == {join(cs) : cs \in UNION {[1..k -> Chunks] : k \in 0..n}}
Values == {NoValue, <<"2">>, <<" ", "b">>, <<"x">> \o UNDEFINED}

EvalCalls ==
    [op : {"evaljs"}, printed : Texts(MaxChunks), value : Values,
     exit : {0, 1}, whitespace : BOOLEAN]

InitEval ==
    /\ call \in EvalCalls
    /\ fs = NoFs

Evaljs ==
    /\ pc = "start"
    /\ call.op = "evaljs"
    /\ result' = evaljs_call(call)
    /\ pc' = "done"
    /\ UNCHANGED <<call, held, xlat, fs, fs0>>


(***************************************************************************)
(* The translator (PythonicParser): an opaque collaborator.  A call either *)
(* raises or yields the list of parts that dump() joins.                   *)
(***************************************************************************)
Translated(pycode, namespace, tr) ==
    [called |-> TRUE, pycode |-> pycode, namespace |-> namespace,
     ok |-> tr.ok, parts |-> tr.parts]

dump(parts) == join(parts)

(***************************************************************************)
(* JSCode: construction and invocation.                                    *)
(***************************************************************************)
JSCode_init_unchecked_class(thetype, name, pycode, tr) ==
    IF thetype \notin {"function", "class"}
    THEN [res |-> Raised("AssertionError", NoText), xlat |-> NoXlat]
    ELSE LET x == Translated(pycode, "None", tr)
         IN  IF ~tr.ok
             THEN [res |-> Raised("TranslationError", NoText), xlat |-> x]
             ELSE IF thetype = "function"
             THEN IF Len(tr.parts) < 2
                  THEN [res |-> Raised("IndexError", NoText), xlat |-> x]
                  ELSE LET jscode == dump([tr.parts EXCEPT ![1] = <<>>, ![2] = <<>>])
                       IN  IF startswith(jscode, FUNCTION_KW)
                           THEN [res |-> ReturnedArtifact(
                                     [type |-> thetype, name |-> name,
                                      pycode |-> pycode, jscode |-> jscode]),
                                 xlat |-> x]
                           ELSE [res |-> Raised("AssertionError", NoText), xlat |-> x]
             ELSE LET jscode == dump(tr.parts)
                  IN  [res |-> ReturnedArtifact(
                                     [type |-> thetype, name |-> name,
                                      pycode |-> pycode, jscode |-> jscode]),
                       xlat |-> x]

JSCode_init(thetype, name, pycode, tr) ==
    IF thetype \notin {"function", "class"}
    THEN [res |-> Raised("AssertionError", NoText), xlat |-> NoXlat]
    ELSE LET x == Translated(pycode, "None", tr)
         IN  IF ~tr.ok
             THEN [res |-> Raised("TranslationError", NoText), xlat |-> x]
             ELSE IF thetype = "function"
             THEN IF Len(tr.parts) < 2
                  THEN [res |-> Raised("IndexError", NoText), xlat |-> x]
                  ELSE LET jscode == dump([tr.parts EXCEPT ![1] = <<>>, ![2] = <<>>])
                       IN  IF startswith(jscode, FUNCTION_KW)
                           THEN [res |-> ReturnedArtifact(
                                     [type |-> thetype, name |-> name,
                                      pycode |-> pycode, jscode |-> jscode]),
                                 xlat |-> x]
                           ELSE [res |-> Raised("AssertionError", NoText), xlat |-> x]
             ELSE LET jscode == dump(tr.parts)
                  IN  IF startswith(jscode, VAR_SP \o name)
                      THEN [res |-> ReturnedArtifact(
                                     [type |-> thetype, name |-> name,
                                      pycode |-> pycode, jscode |-> jscode]),
                            xlat |-> x]
                      ELSE [res |-> Raised("AssertionError", NoText), xlat |-> x]

JSCode_call_swapped(art) ==
    LET action == IF art.type = "function" THEN INSTANTIATE_WORD ELSE CALL_WORD
        typeword == IF art.type = "function" THEN FUNCTION_KW ELSE CLASS_KW
    IN  Raised("RuntimeError", CANNOT \o action \o A_JS \o typeword \o DIRECTLY)

JSCode_call(art) ==
    LET action == IF art.type = "function" THEN CALL_WORD ELSE INSTANTIATE_WORD
        typeword == IF art.type = "function" THEN FUNCTION_KW ELSE CLASS_KW
    IN  Raised("RuntimeError", CANNOT \o action \o A_JS \o typeword \o DIRECTLY)

(***************************************************************************)
(* js: classification, name, source extraction.                            *)
(***************************************************************************)
strip_suffix_all(name) ==
    IF endswith(name, SUFFIX) THEN rstripSuffix(name) ELSE name

strip_suffix(name) ==
    IF endswith(name, SUFFIX) THEN DropLast(name, 4) ELSE name

extract_code_no_deindent(lines) ==
    LET indent == Len(lines[1]) - Len(lstrip(lines[1]))
        lines2 == [i \in DOMAIN lines |-> DropFirst(lines[i], indent)]
    IN  IF startswith(lines2[1], <<"@">>)
        THEN join(Tail(lines))
        ELSE join(lines)

extract_code(lines) ==
    LET indent == Len(lines[1]) - Len(lstrip(lines[1]))
        lines2 == [i \in DOMAIN lines |-> DropFirst(lines[i], indent)]
    IN  IF startswith(lines2[1], <<"@">>)
        THEN join(Tail(lines2))
        ELSE join(lines2)

js_classify_first(ob, tr) ==
    IF ob.tag \notin {"class", "function"}
    THEN [res |-> Raised("ValueError", NoText), xlat |-> NoXlat]
    ELSE IF ~ob.source
    THEN [res |-> Raised("ValueError", NoText), xlat |-> NoXlat]
    ELSE JSCode_init(ob.tag, strip_suffix(ob.name), extract_code(ob.lines), tr)

js(ob, tr) ==
    IF ob.tag = "jscode"
    THEN [res |-> ReturnedArtifact(ob.art), xlat |-> NoXlat]
    ELSE IF ob.tag \notin {"class", "function"}
    THEN [res |-> Raised("ValueError", NoText), xlat |-> NoXlat]
    ELSE IF ~ob.source
    THEN [res |-> Raised("ValueError", NoText), xlat |-> NoXlat]
    ELSE JSCode_init(ob.tag, strip_suffix(ob.name), extract_code(ob.lines), tr)

\* declared names
N_f == <<"f">>
N_A == <<"A">>
Names == {N_f, N_f \o SUFFIX, N_A \o SUFFIX, N_f \o SUFFIX \o SUFFIX, SUFFIX}

\* source lines as inspect.getsourcelines returns them
SourceLines ==
    { <<"@","j","\n">>, <<" "," ","@","j","\n">>, <<"d",":","\n">>,
      <<" "," ","d",":","\n">>, <<" "," "," "," ","p","\n">>, <<"\n">> }
LineLists(n) == UNION {[1..k -> SourceLines] : k \in 1..n}
PlainLines == << <<"d",":","\n">>, <<" "," ","p","\n">> >>

Entity(tag, name, lines, source) ==
    [tag |-> tag, name |-> name, lines |-> lines, source |-> source, art |-> NoArtifact]
AsEntity(art) ==
    [tag |-> "jscode", name |-> NoText, lines |-> <<>>, source |-> FALSE, art |-> art]

Entities ==
    {Entity(t, n, PlainLines, TRUE) : t \in {"function", "class"}, n \in Names}
    \cup {Entity(t, N_f \o SUFFIX, ls, TRUE) :
              t \in {"function", "class"}, ls \in LineLists(MaxLines)}
    \cup {Entity(t, N_f, <<>>, FALSE) : t \in {"function", "class", "other"}}

\* what the translator can answer
FnBody == FUNCTION_KW \o <<"(",")","{","}">>
TranslatorOutcomes ==
    { [ok |-> FALSE, parts |-> <<>>],
      [ok |-> TRUE, parts |-> <<>>],
      [ok |-> TRUE, parts |-> << <<"x">> >>],
      [ok |-> TRUE, parts |-> << VAR_SP \o <<"f",";">>, <<"f","=">>, FnBody >>],
      [ok |-> TRUE, parts |-> << VAR_SP \o N_f \o SUFFIX \o <<";">>, N_f \o SUFFIX \o <<"=">>, FnBody >>],
      [ok |-> TRUE, parts |-> << VAR_SP \o N_A \o SUFFIX \o <<";">>, N_A \o SUFFIX \o <<"=">>, FnBody >>],
      [ok |-> TRUE, parts |-> << VAR_SP \o <<"f",";">>, <<"f","=">>, <<"1">> >>],
      [ok |-> TRUE, parts |-> << <<>>, <<>>, VAR_SP \o <<"g",";">>, FnBody >>],
      [ok |-> TRUE, parts |-> << SUFFIX, <<"=">>, FnBody >>],
      [ok |-> TRUE, parts |-> << VAR_SP \o SUFFIX, <<"=">>, FnBody >>] }

JsCalls ==
    [op : {"js"}, ob : Entities]
    \cup [op : {"JSCode"}, thetype : {"function", "class", "module"},
          name : {N_f, N_A \o SUFFIX}, pycode : {join(PlainLines)}]

InitJs ==
    /\ call \in JsCalls
    /\ fs = NoFs

\* js(ob) on a function, a class or anything else
Js ==
    /\ pc = "start"
    /\ call.op = "js"
    /\ \E tr \in TranslatorOutcomes :
         LET r == js(call.ob, tr)
         IN  /\ result' = r.res
             /\ xlat' = r.xlat
             /\ held' = r.res.art
             /\ pc' = IF r.res.kind = "ok" THEN "built" ELSE "done"
    /\ UNCHANGED <<call, fs, fs0>>

\* JSCode(thetype, name, pycode) constructed directly
Construct ==
    /\ pc = "start"
    /\ call.op = "JSCode"
    /\ \E tr \in TranslatorOutcomes :
         LET r == JSCode_init(call.thetype, call.name, call.pycode, tr)
         IN  /\ result' = r.res
             /\ xlat' = r.xlat
             /\ held' = r.res.art
             /\ pc' = IF r.res.kind = "ok" THEN "built" ELSE "done"
    /\ UNCHANGED <<call, fs, fs0>>

\* js(artifact) on the artifact built before
JsAgain ==
    /\ pc = "built"
    /\ \E tr \in TranslatorOutcomes :
         LET r == js(AsEntity(held), tr)
         IN  /\ result' = r.res
             /\ xlat' = r.xlat
    /\ pc' = "passed"
    /\ UNCHANGED <<call, held, fs, fs0>>

\* artifact(*args, **kwargs)
Invoke ==
    /\ pc \in {"built", "passed"}
    /\ result' = JSCode_call(held)
    /\ pc' = "invoked"
    /\ UNCHANGED <<call, held, xlat, fs, fs0>>

(***************************************************************************)
(* script2js: paths, the file system and the export.                       *)
(***************************************************************************)
\* p.rfind('/') + 1
RECURSIVE rfind_slash(_)
rfind_slash(p) ==
    IF p = <<>> THEN 0
    ELSE IF p[Len(p)] = "/" THEN Len(p)
    ELSE rfind_slash(SubSeq(p, 1, Len(p) - 1))

RECURSIVE rstrip_slash(_)
rstrip_slash(s) ==
    IF s # <<>> /\ s[Len(s)] = "/" THEN rstrip_slash(SubSeq(s, 1, Len(s) - 1)) ELSE s

\* os.path.split
ospath_split(p) ==
    LET i == rfind_slash(p)
        head == SubSeq(p, 1, i)
        tail == DropFirst(p, i)
    IN  [head |-> IF head # <<>> /\ rstrip_slash(head) # <<>>
                  THEN rstrip_slash(head) ELSE head,
         tail |-> tail]

\* os.path.join of two components
ospath_join(a, b) ==
    IF startswith(b, <<"/">>) THEN b
    ELSE IF a = <<>> \/ endswith(a, <<"/">>) THEN a \o b
    ELSE a \o <<"/">> \o b

\* the file a path names when opened: runs of slashes count as one
RECURSIVE Resolve(_)
Resolve(p) ==
    IF Len(p) < 2 THEN p
    ELSE IF p[1] = "/" /\ p[2] = "/" THEN Resolve(Tail(p))
    ELSE <<p[1]>> \o Resolve(Tail(p))

\* open(path, 'wt').write(text): creates or truncates, then writes
write_file(files, path, text) ==
    [q \in DOMAIN files \cup {Resolve(path)} |->
        IF q = Resolve(path) THEN text ELSE files[q]]

script2js_no_banner(files, filename, namespace, tr) ==
    IF ~endswith(filename, DOT_PY)
    THEN [res |-> Raised("AssertionError", NoText), fs |-> files, xlat |-> NoXlat]
    ELSE IF Resolve(filename) \notin DOMAIN files
    THEN [res |-> Raised("IOError", NoText), fs |-> files, xlat |-> NoXlat]
    ELSE LET pycode == files[Resolve(filename)]
             x == Translated(pycode, namespace, tr)
         IN  IF ~tr.ok
             THEN [res |-> Raised("TranslationError", NoText), fs |-> files, xlat |-> x]
             ELSE LET jscode == dump(tr.parts)
                      sp == ospath_split(filename)
                      filename2 == ospath_join(sp.head, DropLast(sp.tail, 3) \o DOT_JS)
                  IN  [res |-> Returned(NoText),
                       fs |-> write_file(files, filename2, jscode),
                       xlat |-> x]

script2js_opens_output_first(files, filename, namespace, tr) ==
    IF ~endswith(filename, DOT_PY)
    THEN [res |-> Raised("AssertionError", NoText), fs |-> files, xlat |-> NoXlat]
    ELSE IF Resolve(filename) \notin DOMAIN files
    THEN [res |-> Raised("IOError", NoText), fs |-> files, xlat |-> NoXlat]
    ELSE LET pycode == files[Resolve(filename)]
             x == Translated(pycode, namespace, tr)
             sp == ospath_split(filename)
             filename2 == ospath_join(sp.head, DropLast(sp.tail, 3) \o DOT_JS)
         IN  IF ~tr.ok
             THEN [res |-> Raised("TranslationError", NoText),
                   fs |-> write_file(files, filename2, NoText), xlat |-> x]
             ELSE [res |-> Returned(NoText),
                   fs |-> write_file(files, filename2, BANNER \o dump(tr.parts)),
                   xlat |-> x]

script2js(files, filename, namespace, tr) ==
    IF ~endswith(filename, DOT_PY)
    THEN [res |-> Raised("AssertionError", NoText), fs |-> files, xlat |-> NoXlat]
    ELSE IF Resolve(filename) \notin DOMAIN files
    THEN [res |-> Raised("IOError", NoText), fs |-> files, xlat |-> NoXlat]
    ELSE LET pycode == files[Resolve(filename)]
             x == Translated(pycode, namespace, tr)
         IN  IF ~tr.ok
             THEN [res |-> Raised("TranslationError", NoText), fs |-> files, xlat |-> x]
             ELSE LET jscode == BANNER \o dump(tr.parts)
                      sp == ospath_split(filename)
                      filename2 == ospath_join(sp.head, DropLast(sp.tail, 3) \o DOT_JS)
                  IN  [res |-> Returned(NoText),
                       fs |-> write_file(files, filename2, jscode),
                       xlat |-> x]

Dirs == {<<>>, <<"/">>, <<"d","/">>, <<"d","/","/">>}
Bases == {<<"a">> \o DOT_PY, DOT_PY, <<"a">> \o DOT_JS, <<"a">>, <<"a">> \o DOT_PY \o DOT_PY}
Paths == {d \o b : d \in Dirs, b \in Bases}
FilePool ==
    { <<"a">> \o DOT_PY, <<"a">> \o DOT_JS, <<"d","/","a">> \o DOT_PY,
      <<"d","/","a">> \o DOT_JS, <<"/","a">> \o DOT_PY, <<"a">> \o DOT_PY \o DOT_PY,
      <<"a">> \o DOT_PY \o DOT_JS, <<"a">> }
FileTexts == {<<"x">>, <<"y","\n">>}
FileSystems(n) ==
    UNION {[S -> FileTexts] : S \in {T \in SUBSET FilePool : Cardinality(T) <= n}}

ExportCalls == [op : {"script2js"}, filename : Paths, namespace : {"None", "ns"}]

InitExport ==
    /\ call \in ExportCalls
    /\ fs \in FileSystems(MaxFiles)

Script2js ==
    /\ pc = "start"
    /\ call.op = "script2js"
    /\ \E tr \in TranslatorOutcomes :
         LET r == script2js(fs, call.filename, call.namespace, tr)
         IN  /\ result' = r.res
             /\ xlat' = r.xlat
             /\ fs' = r.fs
             /\ pc' = IF r.res.kind = "ok" THEN "exported" ELSE "done"
    /\ UNCHANGED <<call, held, fs0>>

Init ==
    /\ pc = "start"
    /\ result = NoResult
    /\ held = NoArtifact
    /\ xlat = NoXlat
    /\ (InitEval \/ InitJs \/ InitExport)
    /\ fs0 = fs

Next ==
    \/ Evaljs
    \/ Js
    \/ Construct
    \/ JsAgain
    \/ Invoke
    \/ Script2js

Spec == Init /\ [][Next]_vars

(***************************************************************************)
(* Properties.                                                             *)
(***************************************************************************)
Contains(s, w) ==
    \E i \in 1..(Len(s) - Len(w) + 1) : SubSeq(s, i, i + Len(w) - 1) = w

IsBlank(c) == c \in {" ", "\t", "\n"}
NotBlank(c) == ~IsBlank(c)
WithoutBlanks(s) == SelectSeq(s, NotBlank)

Constructing == call.op \in {"js", "JSCode"} /\ pc \in {"built", "done"}
AskedType == IF call.op = "JSCode" THEN call.thetype ELSE call.ob.tag
AskedName == IF call.op = "JSCode" THEN call.name ELSE strip_suffix(call.ob.name)

ShapeOk(type, name, jscode) ==
    /\ type \in {"function", "class"}
    /\ type = "function" =>
         startswith(jscode, FUNCTION_KW) /\ ~startswith(jscode, VAR_SP)
    /\ type = "class" => startswith(jscode, VAR_SP \o name)

\* what is left of the translator's output for the kind asked for
OutputFor(type, parts) ==
    IF type = "function" THEN join(SubSeq(parts, 3, Len(parts))) ELSE join(parts)

\* C1: every artifact that construction returns has the shape of its kind
\* (Function: starts with 'function', no leading 'var' declaration; Class: starts
\* with 'var ' + name), and a translator output without that shape makes the
\* construction fail with no artifact produced.
C1_ShapeInvariant ==
    /\ held # NoArtifact => ShapeOk(held.type, held.name, held.jscode)
    /\ (Constructing /\ pc = "built") =>
         /\ held.jscode = OutputFor(held.type, xlat.parts)
         /\ held.type = AskedType /\ held.name = AskedName
    /\ (Constructing /\ xlat.called /\ xlat.ok
          /\ ~ShapeOk(AskedType, AskedName, OutputFor(AskedType, xlat.parts))) =>
         result.kind = "error" /\ held = NoArtifact

C1_Witness ==
    /\ pc = "built"
    /\ held.type = "class"
    /\ held.name = N_f
    /\ startswith(held.jscode, VAR_SP \o N_f \o SUFFIX)

\* C2: js applied to an already-built artifact returns that same artifact, with
\* no translator call and no error.
C2_PassThrough ==
    pc = "passed" =>
        /\ result.kind = "ok"
        /\ result.art = held
        /\ ~xlat.called

C2_Witness ==
    pc = "passed" /\ held.type = "function" /\ result.art = held

\* C3: the artifact's name is the declared name with exactly one trailing '__js'
\* removed when the declared name ends in it, and the declared name otherwise.
C3_NameMangling ==
    (pc = "built" /\ call.op = "js") =>
        /\ endswith(call.ob.name, SUFFIX) => call.ob.name = held.name \o SUFFIX
        /\ ~endswith(call.ob.name, SUFFIX) => held.name = call.ob.name

C3_Witness ==
    /\ pc = "built"
    /\ call.op = "js"
    /\ call.ob.name = N_f \o SUFFIX \o SUFFIX
    /\ held.name = N_f \o SUFFIX

\* C4: invoking an artifact never returns: a Function artifact raises an error
\* whose message contains 'call', a Class artifact one that contains 'instantiate'.
C4_DirectInvocation ==
    pc = "invoked" =>
        /\ result.kind = "error"
        /\ held.type = "function" => Contains(result.msg, CALL_WORD)
        /\ held.type = "class" => Contains(result.msg, INSTANTIATE_WORD)

C4_Witness ==
    pc = "invoked" /\ held.type = "class" /\ Contains(result.msg, INSTANTIATE_WORD)

EvalDone == pc = "done" /\ call.op = "evaljs" /\ result.kind = "ok"

\* C5 as stated: for code whose final statement has no value the result never
\* ends with 'undefined'.
C5_NeverEndsWithUndefined ==
    (EvalDone /\ call.value = NoValue) => ~endswith(result.value, UNDEFINED)

\* C5 as amended: for code whose final statement has no value, exactly the one
\* 'undefined' the runtime appended is removed with the whitespace before it: the
\* result is the text the code printed itself, stripped of trailing whitespace (and
\* of blanks when whitespace is False).
C5_SentinelRemoved ==
    (EvalDone /\ call.value = NoValue) =>
        result.value = IF call.whitespace THEN rstrip(call.printed)
                       ELSE WithoutBlanks(rstrip(call.printed))

C5_Witness ==
    /\ EvalDone
    /\ call.value = NoValue
    /\ call.printed = <<"a", "\n">> \o UNDEFINED
    /\ call.whitespace
    /\ result.value = <<"a", "\n">> \o UNDEFINED

\* C6: with whitespace=False the result has no space, tab or newline, and equals
\* the whitespace=True result with spaces, tabs and newlines removed.
C6_WhitespaceRemoved ==
    (EvalDone /\ ~call.whitespace) =>
        /\ \A i \in 1..Len(result.value) : ~IsBlank(result.value[i])
        /\ result.value =
             WithoutBlanks(evaljs(nodejs(call.printed, call.value), TRUE))

C6_Witness ==
    /\ EvalDone
    /\ ~call.whitespace
    /\ call.printed = <<"a", "\t", "a">>
    /\ call.value = <<" ", "b">>
    /\ result.value = <<"a", "a", "b">>

Successor(filename) == Resolve(DropLast(filename, 3) \o DOT_JS)
BannerLine == DropLast(BANNER, 2)

\* C7: a successful script2js on a path ending in '.py' writes exactly one file,
\* the sibling with '.py' replaced by '.js'; its content is the banner line, a
\* blank line and the translator's output for the whole input text under the
\* given namespace, replacing what the file held.
C7_ExportWritesSibling ==
    pc = "exported" =>
        /\ endswith(call.filename, DOT_PY)
        /\ DOMAIN fs = DOMAIN fs0 \cup {Successor(call.filename)}
        /\ \A q \in DOMAIN fs0 : q # Successor(call.filename) => fs[q] = fs0[q]
        /\ xlat.called /\ xlat.ok
        /\ xlat.pycode = fs0[Resolve(call.filename)]
        /\ xlat.namespace = call.namespace
        /\ fs[Successor(call.filename)] =
             BannerLine \o <<"\n">> \o <<"\n">> \o join(xlat.parts)

C7_Witness ==
    /\ pc = "exported"
    /\ call.filename = <<"d", "/", "/", "a">> \o DOT_PY
    /\ call.namespace = "ns"
    /\ <<"d", "/", "a">> \o DOT_JS \in DOMAIN fs0
    /\ fs[<<"d", "/", "a">> \o DOT_JS] # fs0[<<"d", "/", "a">> \o DOT_JS]

\* C8: the extracted text is the source lines with the first line's indentation
\* width cut from the start of every line, and with the first line dropped when,
\* de-indented, it starts with '@'; otherwise all lines are kept.
C8_DecoratorStripping ==
    (pc = "built" /\ call.op = "js") =>
        LET lines == call.ob.lines
            first == lines[1]
            width == CHOOSE n \in 0..Len(first) :
                        /\ \A i \in 1..n : first[i] \in WS
                        /\ n = Len(first) \/ first[n + 1] \notin WS
            cut == [i \in 1..Len(lines) |-> DropFirst(lines[i], width)]
        IN  IF width < Len(first) /\ first[width + 1] = "@"
            THEN held.pycode = join(SubSeq(cut, 2, Len(cut)))
            ELSE held.pycode = join(cut)

C8_Witness ==
    /\ pc = "built"
    /\ call.op = "js"
    /\ call.ob.lines = << <<" "," ","@","j","\n">>, <<" "," ","d",":","\n">>,
                          <<" "," "," "," ","p","\n">> >>
    /\ held.pycode = <<"d",":","\n"," "," ","p","\n">>

\* C9 as stated: with whitespace=True the result neither starts nor ends with a
\* whitespace character.
C9_StrippedBothEnds ==
    (EvalDone /\ call.whitespace /\ result.value # <<>>) =>
        /\ result.value[1] \notin WS
        /\ result.value[Len(result.value)] \notin WS

\* C9 as amended: with whitespace=True only trailing whitespace is stripped: the
\* result never ends with a whitespace character and is a prefix of the captured
\* output, so leading whitespace is kept.
C9_StrippedAtEnd ==
    (EvalDone /\ call.whitespace) =>
        /\ result.value # <<>> => result.value[Len(result.value)] \notin WS
        /\ startswith(nodejs(call.printed, call.value), result.value)

C9_Witness ==
    /\ EvalDone
    /\ call.whitespace
    /\ call.printed = <<" ", "a", "\n">>
    /\ call.value = NoValue
    /\ result.value = <<" ", "a">>

\* C10: when script2js fails because the path does not end in '.py', the file
\* does not exist or the translator rejects the text, no file is created and
\* every existing file keeps its content.
C10_ExportFailsAtomically ==
    (call.op = "script2js" /\ pc = "done") =>
        /\ result.kind = "error"
        /\ result.exc \in {"AssertionError", "IOError", "TranslationError"}
        /\ fs = fs0

C10_Witness ==
    /\ call.op = "script2js"
    /\ pc = "done"
    /\ result.exc = "TranslationError"
    /\ Successor(call.filename) \in DOMAIN fs0
    /\ fs = fs0

====
